---- MODULE Spec2Model ----
(***************************************************************************)
(* Model of the Notion client of VIOOI/notion-service:                     *)
(*   - the token-bucket rate limiter (internal/sdk.ts, createRateLimiter), *)
(*   - the HTTP pipeline with its retry policy (createHttpClient),         *)
(*   - the typed facade (createNotionClient),                              *)
(*   - the pagination helper fetchAllPages (types.ts).                     *)
(* Each fiber of the Effect runtime is a process; one action is one step   *)
(* between two suspension points of the code.                              *)
(***************************************************************************)
EXTENDS Integers, Sequences, FiniteSets, TLC

\* ------------------------------------------------------------------ bounds
NumCallers == 2
MaxBurst == 2
MaxTicks == 2
MaxInvocations == 2
MaxPages == 2
MaxFetches == 3
MaxHooks == 2
MaxPayload == 2
MaxRows == 2

Callers == 1..NumCallers
\* invocations of the /edit-price handler
Hooks == 1..MaxHooks

\* ------------------------------------------------------- program constants
\* Effect.retry({ times: 3, ... })
RetryTimesFour == 3 + 1
RetryTimes == 3
\* Schedule.exponential(Duration.seconds(1)), in milliseconds
BaseDelayMs == 1000
\* Schedule.exponential's default factor
Factor == 2
\* NotionClientLayer: createRateLimiter(3, 10)
LayerBurst == 10

\* NotionErrorCode
NotionErrorCode ==
  { "invalid_json", "invalid_request_url", "invalid_request",
    "validation_error", "missing_version", "unauthorized",
    "restricted_resource", "object_not_found", "conflict_error",
    "rate_limited", "internal_server_error", "service_unavailable",
    "database_connection_unavailable", "gateway_timeout" }

RetryWhileAlways(error) == TRUE
RetryWhileDecode(error) ==
  error.code \in {"rate_limited", "internal_server_error", "service_unavailable",
                  "gateway_timeout", "invalid_json"}
\* the `while` predicate of Effect.retry in request
RetryWhile(error) ==
  \/ error.code = "rate_limited"
  \/ error.code = "internal_server_error"
  \/ error.code = "service_unavailable"
  \/ error.code = "gateway_timeout"

RECURSIVE Pow(_, _)
Pow(b, n) == IF n = 0 THEN 1 ELSE b * Pow(b, n - 1)

ExponentialDelayLinear(n) == BaseDelayMs * (n + 1)
\* Schedule.exponential(1 second): the delay before recurrence n (0-based)
ExponentialDelay(n) == BaseDelayMs * Pow(Factor, n)

\* ------------------------------------------------------------ wire values
ResponseOkAbove200(status) == status > 200 /\ status <= 299
\* Response.ok
ResponseOk(status) == status >= 200 /\ status <= 299

\* Body texts the remote may send.  `raw` is the text, `json` tells whether
\* JSON.parse accepts it and `doc` is the document it then yields; a field
\* the document lacks reads as undefined.
Document(object, code, message, request_id) ==
  [object |-> object, code |-> code, message |-> message, request_id |-> request_id]
ErrorText(code) ==
  [raw |-> "{error}", json |-> TRUE, doc |-> Document("error", code, "msg", "rid")]
PageText ==
  [raw |-> "{page}", json |-> TRUE,
   doc |-> Document("page", "undefined", "undefined", "undefined")]
ListText ==
  [raw |-> "{list}", json |-> TRUE,
   doc |-> Document("list", "undefined", "undefined", "undefined")]
\* a JSON error document whose code is not in the enumeration
ForeignText ==
  [raw |-> "{error teapot}", json |-> TRUE, doc |-> Document("error", "teapot", "msg", "rid")]
\* a JSON error document without a message
MessagelessText ==
  [raw |-> "{error no message}", json |-> TRUE,
   doc |-> Document("error", "validation_error", "undefined", "rid")]
\* a JSON error document without a code
CodelessText ==
  [raw |-> "{error no code}", json |-> TRUE, doc |-> Document("error", "undefined", "msg", "rid")]
GarbageText ==
  [raw |-> "not json", json |-> FALSE,
   doc |-> Document("undefined", "undefined", "undefined", "undefined")]
EmptyText ==
  [raw |-> "", json |-> FALSE,
   doc |-> Document("undefined", "undefined", "undefined", "undefined")]

\* JSON.parse
JSONParse(text) == IF text.json THEN [ok |-> TRUE, doc |-> text.doc]
                   ELSE [ok |-> FALSE, doc |-> text.doc]

\* What fetchFn can deliver: a rejection (transport failure), or a response
\* with a status and a body (whose text may fail to be read).
HttpStatusOf(code) ==
  CASE code \in {"invalid_json", "invalid_request_url", "invalid_request",
                 "validation_error", "missing_version"} -> 400
    [] code = "unauthorized" -> 401
    [] code = "restricted_resource" -> 403
    [] code = "object_not_found" -> 404
    [] code = "conflict_error" -> 409
    [] code = "rate_limited" -> 429
    [] code = "internal_server_error" -> 500
    [] code \in {"service_unavailable", "database_connection_unavailable"} -> 503
    [] code = "gateway_timeout" -> 504

Responses ==
  { [kind |-> "reject", status |-> 0, readable |-> FALSE, text |-> GarbageText] }
  \cup { [kind |-> "response", status |-> HttpStatusOf(code), readable |-> TRUE,
          text |-> ErrorText(code)] : code \in NotionErrorCode }
  \cup { [kind |-> "response", status |-> 200, readable |-> TRUE, text |-> t] :
          t \in {PageText, ListText, GarbageText} }
  \cup { [kind |-> "response", status |-> 404, readable |-> TRUE, text |-> GarbageText] }
  \cup { [kind |-> "response", status |-> 400, readable |-> TRUE, text |-> ForeignText],
         [kind |-> "response", status |-> 400, readable |-> TRUE, text |-> MessagelessText],
         [kind |-> "response", status |-> 403, readable |-> TRUE, text |-> CodelessText],
         [kind |-> "response", status |-> 502, readable |-> TRUE, text |-> EmptyText],
         [kind |-> "response", status |-> 200, readable |-> FALSE, text |-> GarbageText] }

\* ---------------------------------------------------------------- results
\* An outcome of one attempt: the decoded value or a NotionError.
Success(doc) ==
  [tag |-> "ok", status |-> 0, code |-> "", message |-> "", requestId |-> "", value |-> doc.object]
Failure(status, code, message, requestId) ==
  [tag |-> "error", status |-> status, code |-> code, message |-> message,
   requestId |-> requestId, value |-> ""]
NoOutcome ==
  [tag |-> "none", status |-> 0, code |-> "", message |-> "", requestId |-> "", value |-> ""]

NotionErrorValidAny(code, message) == TRUE
\* new NotionError({...}): the constructor of a Schema.TaggedError class
\* validates its fields and throws unless code is one of the literals and
\* message is a string (requestId is optional).
NotionErrorValid(code, message) == code \in NotionErrorCode /\ message # "undefined"

\* Response.statusText
StatusText(status) ==
  CASE status = 404 -> "Not Found"
    [] status = 502 -> "Bad Gateway"
    [] OTHER -> "status text"

parseResponseByStatus(response) ==
  IF ~response.readable
  THEN Failure(0, "internal_server_error", "Failed to read response body", "undefined")
  ELSE LET parsed == JSONParse(response.text) IN
       IF ~ResponseOk(response.status)
       THEN IF parsed.ok /\ NotionErrorValid(parsed.doc.code, parsed.doc.message)
            THEN Failure(response.status, parsed.doc.code, parsed.doc.message,
                         parsed.doc.request_id)
            ELSE Failure(response.status,
                         IF response.status < 500 THEN "invalid_request"
                         ELSE "internal_server_error",
                         IF response.text.raw # "" THEN response.text.raw
                         ELSE StatusText(response.status),
                         "undefined")
       ELSE IF parsed.ok
            THEN Success(parsed.doc)
            ELSE Failure(response.status, "invalid_json", "Invalid JSON response", "undefined")
parseResponseUnchecked(response) ==
  IF ~response.readable
  THEN Failure(0, "internal_server_error", "Failed to read response body", "undefined")
  ELSE LET parsed == JSONParse(response.text) IN
       IF ~ResponseOk(response.status)
       THEN IF parsed.ok
            THEN Failure(response.status, parsed.doc.code, parsed.doc.message,
                         parsed.doc.request_id)
            ELSE Failure(response.status, "internal_server_error",
                         IF response.text.raw # "" THEN response.text.raw
                         ELSE StatusText(response.status),
                         "undefined")
       ELSE IF parsed.ok
            THEN Success(parsed.doc)
            ELSE Failure(response.status, "invalid_json", "Invalid JSON response", "undefined")
\* parseResponse
parseResponse(response) ==
  IF ~response.readable
  THEN Failure(0, "internal_server_error", "Failed to read response body", "undefined")
  ELSE LET parsed == JSONParse(response.text) IN
       IF ~ResponseOk(response.status)
       THEN IF parsed.ok /\ NotionErrorValid(parsed.doc.code, parsed.doc.message)
            THEN Failure(response.status, parsed.doc.code, parsed.doc.message,
                         parsed.doc.request_id)
            ELSE Failure(response.status, "internal_server_error",
                         IF response.text.raw # "" THEN response.text.raw
                         ELSE StatusText(response.status),
                         "undefined")
       ELSE IF parsed.ok
            THEN Success(parsed.doc)
            ELSE Failure(response.status, "invalid_json", "Invalid JSON response", "undefined")

AttemptOutcomeFatal(r) ==
  IF r.kind = "reject"
  THEN Failure(0, "invalid_request", "Network error", "undefined")
  ELSE parseResponse(r)
\* One attempt after the permit: fetchFn, then parseResponse.
AttemptOutcome(r) ==
  IF r.kind = "reject"
  THEN Failure(0, "internal_server_error", "Network error", "undefined")
  ELSE parseResponse(r)

TimerAfterFromStart(step) == IF step \in {"invoke", "send"} THEN "armed" ELSE "off"
\* init.signal = AbortSignal.timeout(config.timeoutMs || 30000) is made when
\* an attempt builds its init, after acquire; a settled attempt is done with
\* its signal.
TimerAfter(step) == IF step = "send" THEN "armed" ELSE "off"

\* what fetchFn delivers when the signal aborts the call: a rejection
Rejected == [kind |-> "reject", status |-> 0, readable |-> FALSE, text |-> GarbageText]

\* ------------------------------------------------------------------ facade
Operations ==
  { "databases.retrieve", "databases.create", "databases.update", "databases.query",
    "pages.retrieve", "pages.create", "pages.update",
    "blocks.retrieve", "blocks.update", "blocks.delete",
    "blocks.children.list", "blocks.children.append",
    "users.retrieve", "users.list", "users.me",
    "search", "comments.create", "comments.list" }

\* operations whose request or params argument may be left out
OptionalArgument ==
  { "databases.query", "blocks.children.list", "users.list", "search" }

\* A call of a facade operation: the operation, and whether its request or
\* params argument is given.
FacadeCalls ==
  { [op |-> o, given |-> g] : o \in Operations, g \in BOOLEAN } \
  { [op |-> o, given |-> FALSE] : o \in Operations \ OptionalArgument }

RequestOptions(method, path, body, query) ==
  [method |-> method, path |-> path, body |-> body, query |-> query]

DatabasesQueryOrList(call) ==
  IF call.given
  THEN RequestOptions("POST", "/v1/databases/${id}/query", "request", "undefined")
  ELSE RequestOptions("GET", "/v1/databases/${id}", "undefined", "undefined")
\* databases.query: POST with body: request || {}
DatabasesQuery(call) ==
  RequestOptions("POST", "/v1/databases/${id}/query",
                 IF call.given THEN "request" ELSE "{}", "undefined")

BlocksDeleteArchive ==
  RequestOptions("PATCH", "/v1/blocks/${id}", "request", "undefined")
\* blocks.delete: http.request({ method: "DELETE", path: `/v1/blocks/${id}` })
BlocksDelete ==
  RequestOptions("DELETE", "/v1/blocks/${id}", "undefined", "undefined")

\* createNotionClient: the RequestOptions each operation passes to
\* http.request.  body is "request" (the caller's object), "{}" or
\* "undefined"; query is "params" or "undefined".
Facade(call) ==
  LET arg(kind) == IF call.given THEN kind ELSE "undefined" IN
  CASE call.op = "databases.retrieve" ->
         RequestOptions("GET", "/v1/databases/${id}", "undefined", "undefined")
    [] call.op = "databases.create" ->
         RequestOptions("POST", "/v1/databases", "request", "undefined")
    [] call.op = "databases.update" ->
         RequestOptions("PATCH", "/v1/databases/${id}", "request", "undefined")
    [] call.op = "databases.query" -> DatabasesQuery(call)
    [] call.op = "pages.retrieve" ->
         RequestOptions("GET", "/v1/pages/${id}", "undefined", "undefined")
    [] call.op = "pages.create" ->
         RequestOptions("POST", "/v1/pages", "request", "undefined")
    [] call.op = "pages.update" ->
         RequestOptions("PATCH", "/v1/pages/${id}", "request", "undefined")
    [] call.op = "blocks.retrieve" ->
         RequestOptions("GET", "/v1/blocks/${id}", "undefined", "undefined")
    [] call.op = "blocks.update" ->
         RequestOptions("PATCH", "/v1/blocks/${id}", "request", "undefined")
    [] call.op = "blocks.delete" -> BlocksDelete
    [] call.op = "blocks.children.list" ->
         RequestOptions("GET", "/v1/blocks/${id}/children", "undefined", arg("params"))
    [] call.op = "blocks.children.append" ->
         RequestOptions("PATCH", "/v1/blocks/${id}/children", "request", "undefined")
    [] call.op = "users.retrieve" ->
         RequestOptions("GET", "/v1/users/${id}", "undefined", "undefined")
    [] call.op = "users.list" ->
         RequestOptions("GET", "/v1/users", "undefined", arg("params"))
    [] call.op = "users.me" ->
         RequestOptions("GET", "/v1/users/me", "undefined", "undefined")
    [] call.op = "search" ->
         RequestOptions("POST", "/v1/search",
                        IF call.given THEN "request" ELSE "{}", "undefined")
    [] call.op = "comments.create" ->
         RequestOptions("POST", "/v1/comments", "request", "undefined")
    [] call.op = "comments.list" ->
         RequestOptions("GET", "/v1/comments", "undefined", "params")

\* JavaScript truthiness of options.body: an object, {} included, is truthy
Truthy(body) == body # "undefined"

buildHeadersJson(contentType) ==
  { <<"Authorization", "Bearer ${config.auth}">>, <<"Notion-Version", "2022-06-28">>,
    <<"Content-Type", "application/json">> }
\* buildHeaders(contentType)
buildHeaders(contentType) ==
  { <<"Authorization", "Bearer ${config.auth}">>, <<"Notion-Version", "2022-06-28">> }
  \cup (IF contentType # "undefined" THEN { <<"Content-Type", contentType>> } ELSE {})

\* buildURL(path, query)
buildURL(path, query) == [path |-> path, search |-> query]

\* JSON.stringify(options.body)
JSONStringify(body) == IF body = "{}" THEN "{}" ELSE "json(request)"

\* url and init, as request passes them to fetchFn
BuildRequest(options) ==
  [ url |-> buildURL(options.path, options.query),
    method |-> options.method,
    headers |-> buildHeaders(IF Truthy(options.body) THEN "application/json" ELSE "undefined"),
    body |-> IF Truthy(options.body) THEN JSONStringify(options.body) ELSE "undefined" ]

NoCall == [op |-> "none", given |-> FALSE]
NoRequest ==
  [ url |-> buildURL("", "undefined"), method |-> "", headers |-> {}, body |-> "undefined" ]

\* ------------------------------------------------------------- pagination
\* Values a cursor position can hold: an Option (Some/None), as the type
\* PaginatedList declares, or what JSON.parse yields for the wire field
\* (a string or null); undefined is the absent argument.
Undefined == [rep |-> "undefined", tok |-> 0]
OptionSome(k) == [rep |-> "Some", tok |-> k]
OptionNone == [rep |-> "None", tok |-> 0]
JsonString(k) == [rep |-> "string", tok |-> k]
JsonNull == [rep |-> "null", tok |-> 0]

\* Option.isSome(x) is x._tag === "Some": it throws a TypeError on null, and
\* a string has no _tag.
OptionIsSomeThrows(x) == x.rep \in {"null", "undefined"}
OptionIsSome(x) == x.rep = "Some"

OptionGetOrNullFirst(x) == IF x.rep = "Some" THEN JsonString(1) ELSE JsonNull
\* Option.getOrNull(Some(token)) is the token, a string
OptionGetOrNull(x) == IF x.rep = "Some" THEN JsonString(x.tok) ELSE JsonNull

AppendAllFront(acc, results) == results \o acc
\* Array.appendAll(accumulated, results)
AppendAll(acc, results) == acc \o results

PageResults == { <<>>, <<"A", "B">>, <<"C">> }

\* The cursor values a page of an n-page listing can carry.
CursorValues(n, json) ==
  IF json THEN {JsonNull} \cup { JsonString(k) : k \in 1..n }
  ELSE {OptionNone} \cup { OptionSome(k) : k \in 1..n }

PageLists(n, json) ==
  [1..n -> [results : PageResults, has_more : BOOLEAN, next_cursor : CursorValues(n, json)]]

\* The fetch function: no cursor serves the first page, token k serves page k.
FetchPage(arg) == IF arg = Undefined THEN 1 ELSE arg.tok

\* The errors a call of the fetch function may fail with.
FetchErrors ==
  { Failure(404, "object_not_found", "msg", "rid"),
    Failure(0, "internal_server_error", "Network error", "undefined") }

FetchFailedPartial(error, acc) == [walk |-> "done", failure |-> NoOutcome, returned |-> acc]
\* pipe(fetchPage(cursor), Effect.flatMap(...)) on a failed fetchPage: the
\* continuation does not run and the failure is the traversal's own.
FetchFailed(error, acc) == [walk |-> "failed", failure |-> error, returned |-> <<>>]

\* -------------------------------------------------------- property values
\* PropertyValue: a union tagged by `type`, the payload under the key of the
\* same name.
PropertyTags ==
  { "number", "select", "multi_select", "date", "formula", "relation", "rollup",
    "title", "rich_text", "people", "files", "checkbox", "url", "email",
    "phone_number", "created_time", "created_by", "last_edited_time",
    "last_edited_by", "status", "unique_id", "verification" }

\* the tags whose payload (for formula, rollup and unique_id: the part of it
\* that may be missing) is declared as Option.Option<...>
OptionTags ==
  { "number", "select", "date", "formula", "rollup", "url", "email", "phone_number",
    "status", "unique_id", "verification" }

\* Payloads: Option.some(k) and Option.none() (OptionSome, OptionNone above),
\* a plain JSON value k, null (JsonNull), a key that is left out, and the
\* plain object { _id: "Option", _tag, value } that is not an Option.
JsonValue(k) == [rep |-> "value", tok |-> k]
Omitted == [rep |-> "omitted", tok |-> 0]
PlainSome(k) == [rep |-> "{_id,_tag:Some,value}", tok |-> k]
PlainNone == [rep |-> "{_id,_tag:None}", tok |-> 0]

\* The three optionality states of the payload as the types declare them.
DeclaredPayloads(tag) ==
  IF tag \in OptionTags
  THEN { OptionSome(k) : k \in 1..MaxPayload } \cup {OptionNone, Omitted}
  ELSE { JsonValue(k) : k \in 1..MaxPayload } \cup {JsonNull, Omitted}

\* The same three states as the remote service writes them.
WirePayloads(tag) == { JsonValue(k) : k \in 1..MaxPayload } \cup {JsonNull, Omitted}

PropertyValues ==
  UNION { { [type |-> tag, payload |-> pl] : pl \in DeclaredPayloads(tag) \cup WirePayloads(tag) } :
          tag \in PropertyTags }

NoProperty == [type |-> "", payload |-> Omitted]

\* JSON text of an object { type, [type]: payload }: whether the payload's
\* key is written and the JSON written for it.
JsonText(type, written, json, tok) ==
  [type |-> type, written |-> written, json |-> json, tok |-> tok]
NoJson == JsonText("", FALSE, "", 0)

ToJSON(pl) ==
  CASE pl.rep = "Some" -> "{\"_id\":\"Option\",\"_tag\":\"Some\",\"value\":k}"
    [] pl.rep = "None" -> "{\"_id\":\"Option\",\"_tag\":\"None\"}"
    [] pl.rep = "{_id,_tag:Some,value}" -> "{\"_id\":\"Option\",\"_tag\":\"Some\",\"value\":k}"
    [] pl.rep = "{_id,_tag:None}" -> "{\"_id\":\"Option\",\"_tag\":\"None\"}"
    [] pl.rep = "value" -> "k"
    [] pl.rep = "null" -> "null"
    [] OTHER -> ""

\* JSON.stringify(options.body) of a property value: a key that is left out
\* or undefined is not written, null is written as null, and an Option is
\* written as what its toJSON() returns.
StringifyProperty(v) ==
  JsonText(v.type, v.payload.rep \notin {"omitted", "undefined"}, ToJSON(v.payload),
           v.payload.tok)

\* JSON.parse(text) as T: plain JSON values; an object stays a plain object.
ParseProperty(t) ==
  [ type |-> t.type,
    payload |->
      IF ~t.written THEN Omitted
      ELSE CASE t.json = "null" -> JsonNull
             [] t.json = "k" -> JsonValue(t.tok)
             [] t.json = "{\"_id\":\"Option\",\"_tag\":\"Some\",\"value\":k}" -> PlainSome(t.tok)
             [] t.json = "{\"_id\":\"Option\",\"_tag\":\"None\"}" -> PlainNone ]

\* ------------------------------------------------------------------ state
\* The responses of the remote used when several callers run concurrently:
\* a success, a retryable failure and a non-retryable failure.
BasicResponses ==
  { r \in Responses :
      /\ r.kind = "response"
      /\ r.readable
      /\ \/ r.status = 200 /\ r.text = PageText
         \/ r.status = 429
         \/ r.status = 404 /\ r.text = ErrorText("object_not_found") }

RetrievePage == [op |-> "pages.retrieve", given |-> TRUE]

\* The deployments explored: a crowd of callers that each retrieve a page
\* once; a single caller that retrieves a page repeatedly from a remote that
\* may answer with any of Responses; a single caller that calls any one
\* operation of the facade.
Scenarios ==
  { [clients |-> Callers, quota |-> 1, menu |-> {RetrievePage}, remote |-> BasicResponses],
    [clients |-> {1}, quota |-> MaxInvocations, menu |-> {RetrievePage}, remote |-> Responses],
    [clients |-> {1}, quota |-> 1, menu |-> FacadeCalls, remote |-> BasicResponses] }

VARIABLES
  scenario,   \* who calls, how often, and what the remote may answer
  burst,      \* createRateLimiter's burst argument
  permits,    \* the TSemaphore's available permits
  ticks,      \* completed cycles of the refill daemon
  pc,         \* per caller: where its request fiber stands
  invoked,    \* per caller: the facade call of the current invocation
  wire,       \* per caller: the request handed to fetchFn by the latest attempt
  calls,      \* per caller: invocations of request started so far
  attempts,   \* per caller: network calls of the current invocation
  delays,     \* per caller: backoff sleeps of the current invocation (ms)
  first,      \* per caller: what fetchFn delivered to the first attempt
  got,        \* per caller: what fetchFn delivered to the latest attempt
  last,       \* per caller: outcome of the latest finished attempt
  uniform,    \* per caller: all finished attempts ended with the same code
  result,     \* per caller: what request returned to its caller
  acq,        \* per caller: completed acquire calls
  sent,       \* per caller: network calls started, over all invocations
  refilling,  \* the refill daemon forked by createRateLimiter is running
  interruptedAt, \* per caller: where its request fiber was interrupted ("": nowhere)
  timer,      \* per caller: "armed" while the AbortSignal.timeout of an attempt is pending
  pages,      \* fetchAllPages: the pages the fetch function serves
  failAt,     \* fetchAllPages: the call of the fetch function that fails (0: none)
  cursor,     \* fetchAllPages: the cursor argument of the next call
  accumulated,\* fetchAllPages: the accumulator
  passed,     \* fetchAllPages: the cursors passed to the fetch function so far
  walk,       \* fetchAllPages: "off", "fetching", "done", "failed" or "defect"
  returned,   \* fetchAllPages: the array it succeeded with
  raises,     \* fetchAllPages: the error the failing call of the fetch function fails with
  failure,    \* fetchAllPages: the error it failed with
  stage,      \* per webhook invocation: where the /edit-price handler stands
  limiter,    \* per webhook invocation: the bucket its client acquires from (0: none)
  buckets,    \* the TSemaphores made so far, each with its permits and refill ticks
  daemons,    \* the buckets whose refill daemon is running
  updates,    \* per webhook invocation: pages.update calls issued
  checks,     \* per webhook invocation: parent-type checks passed so far
  price,      \* per webhook invocation: the handler's price
  lookup,     \* per webhook invocation: how the discount lookup went
  discount,   \* per webhook invocation: the handler's discount
  number,     \* per webhook invocation: the number sent by pages.update
  original,   \* round trip: the property value handed to the body encoding
  encoded,    \* round trip: the JSON text of it
  decoded,    \* round trip: what the response decoding makes of that text
  codec       \* round trip: "off", "value", "encoded" or "decoded"

clientVars == <<scenario, burst, permits, ticks, pc, invoked, wire, calls, attempts, delays,
                first, got, last, uniform, result, acq, sent, refilling, interruptedAt,
                timer>>

pageVars == <<pages, failAt, cursor, accumulated, passed, walk, returned, raises, failure>>

hookVars == <<stage, limiter, buckets, daemons, updates, checks, price, lookup, discount, number>>

codecVars == <<original, encoded, decoded, codec>>

vars == <<clientVars, pageVars, hookVars, codecVars>>

NoResponse == [kind |-> "none", status |-> 0, readable |-> FALSE, text |-> GarbageText]

\* ------------------------------------------------------------------- init
\* TSemaphore.make(burst); the refill daemon is forked and sleeping.
InitClients(scenarios, bursts) ==
  /\ scenario \in scenarios
  /\ burst \in bursts
  /\ permits = burst
  /\ ticks = 0
  /\ pc = [c \in Callers |-> "idle"]
  /\ invoked = [c \in Callers |-> NoCall]
  /\ wire = [c \in Callers |-> NoRequest]
  /\ calls = [c \in Callers |-> 0]
  /\ attempts = [c \in Callers |-> 0]
  /\ delays = [c \in Callers |-> <<>>]
  /\ first = [c \in Callers |-> NoResponse]
  /\ got = [c \in Callers |-> NoResponse]
  /\ last = [c \in Callers |-> NoOutcome]
  /\ uniform = [c \in Callers |-> TRUE]
  /\ result = [c \in Callers |-> NoOutcome]
  /\ acq = [c \in Callers |-> 0]
  /\ sent = [c \in Callers |-> 0]
  /\ refilling = TRUE
  /\ interruptedAt = [c \in Callers |-> ""]
  /\ timer = [c \in Callers |-> "off"]

\* No traversal is running.
InitNoWalk ==
  /\ pages = <<>>
  /\ failAt = 0
  /\ cursor = Undefined
  /\ accumulated = <<>>
  /\ passed = <<>>
  /\ walk = "off"
  /\ returned = <<>>
  /\ raises = NoOutcome
  /\ failure = NoOutcome

\* ------------------------------------------------- values the handler reads
\* A page property as the handler looks at it: its type, for a formula the
\* type of its result, the number it holds, for a relation its page ids.
Property(type, formula, value, relation) ==
  [type |-> type, formula |-> formula, number |-> value, relation |-> relation]

\* properties[name] of a page that has no property of that name
NoSuchProperty == Property("undefined", "", 0, <<>>)

\* the prices and discounts (percent) the remote pages hold
Prices == {100}
Discounts == {0, 1, 10}

\* p.properties["Цена"] of a row of a child database
PriceProperties ==
  { Property("number", "", n, <<>>) : n \in Prices }
    \cup { Property("formula", "number", n, <<>>) : n \in Prices }
    \cup { Property("formula", "string", 0, <<>>), Property("rich_text", "", 0, <<>>), NoSuchProperty }

\* the rows of the child databases "Материалы" and "Работа", flattened
PriceRows == UNION { [1..n -> PriceProperties] : n \in 0..MaxRows }

\* h.properties["🧔 Клиенты"] of the parent page
ClientsProperties ==
  { Property("relation", "", 0, <<>>), Property("relation", "", 0, <<1>>),
    Property("rich_text", "", 0, <<>>), NoSuchProperty }

\* h.properties["Скидка"] of the client's page
DiscountProperties ==
  { Property("formula", "number", d, <<>>) : d \in Discounts }
    \cup { Property("formula", "string", 0, <<>>), Property("rich_text", "", 0, <<>>), NoSuchProperty }

\* How a pipeline of the handler ends: with a value, with a failure (the
\* error channel) or with a defect (an exception thrown in a callback).
Exit(exit, step, value) == [exit |-> exit, step |-> step, value |-> value]
NoLookup == Exit("", "", 0)
NoNumber == 0 - 1

\* The server is up and no request has reached /edit-price: the layer
\* handed to Effect.provide is a description, nothing is built yet.
InitHooks ==
  /\ stage = [h \in Hooks |-> "idle"]
  /\ limiter = [h \in Hooks |-> 0]
  /\ buckets = <<>>
  /\ daemons = {}
  /\ updates = [h \in Hooks |-> 0]
  /\ checks = [h \in Hooks |-> 0]
  /\ price = [h \in Hooks |-> 0]
  /\ lookup = [h \in Hooks |-> NoLookup]
  /\ discount = [h \in Hooks |-> 0]
  /\ number = [h \in Hooks |-> NoNumber]

\* Only the client is in use: no webhook request arrives.
InitNoHooks ==
  /\ stage = [h \in Hooks |-> "off"]
  /\ limiter = [h \in Hooks |-> 0]
  /\ buckets = <<>>
  /\ daemons = {}
  /\ updates = [h \in Hooks |-> 0]
  /\ checks = [h \in Hooks |-> 0]
  /\ price = [h \in Hooks |-> 0]
  /\ lookup = [h \in Hooks |-> NoLookup]
  /\ discount = [h \in Hooks |-> 0]
  /\ number = [h \in Hooks |-> NoNumber]

\* No property value is being encoded.
InitNoCodec ==
  /\ original = NoProperty
  /\ encoded = NoJson
  /\ decoded = NoProperty
  /\ codec = "off"

Init == InitClients(Scenarios, 1..MaxBurst) /\ InitNoWalk /\ InitNoHooks /\ InitNoCodec

\* ---------------------------------------------------------------- limiter
\* The refill daemon: Effect.sleep(refillInterval); TSemaphore.releaseN(semaphore, 1)
Refill ==
  /\ refilling
  /\ ticks < MaxTicks
  /\ permits' = permits + 1
  /\ ticks' = ticks + 1
  /\ UNCHANGED <<scenario, refilling, interruptedAt, timer, invoked, wire, burst, pc, calls, attempts, delays, first, got, last,
                 uniform, result, acq, sent>>
  /\ UNCHANGED <<pageVars, hookVars, codecVars>>

AcquireTakeOrFail(c) ==
  /\ pc[c] = "acquire"
  /\ permits' = IF permits >= 1 THEN permits - 1 ELSE permits
  /\ pc' = [pc EXCEPT ![c] = IF permits >= 1 THEN "permit" ELSE "failed"]
  /\ UNCHANGED <<scenario, refilling, interruptedAt, timer, invoked, wire, burst, ticks, calls,
                 attempts, delays, first, got, last, uniform, result, acq, sent>>
  /\ UNCHANGED <<pageVars, hookVars, codecVars>>
\* TSemaphore.withPermit(semaphore)(Effect.void), first half: take a permit
\* (the STM transaction retries while none is available).
AcquireTake(c) ==
  /\ pc[c] = "acquire"
  /\ permits >= 1
  /\ permits' = permits - 1
  /\ pc' = [pc EXCEPT ![c] = "permit"]
  /\ UNCHANGED <<scenario, refilling, interruptedAt, timer, invoked, wire, burst, ticks, calls, attempts, delays, first, got,
                 last, uniform, result, acq, sent>>
  /\ UNCHANGED <<pageVars, hookVars, codecVars>>

AcquireReleaseHeld(c) ==
  /\ pc[c] = "permit"
  /\ pc' = [pc EXCEPT ![c] = "permit"]
  /\ UNCHANGED <<scenario, refilling, interruptedAt, timer, invoked, wire, burst, permits, ticks, calls, attempts, delays,
                 first, got, last, uniform, result, acq, sent>>
  /\ UNCHANGED <<pageVars, hookVars, codecVars>>
\* withPermit, second half: Effect.void has run, the permit is released and
\* acquire returns.
AcquireRelease(c) ==
  /\ pc[c] = "permit"
  /\ permits' = permits + 1
  /\ pc' = [pc EXCEPT ![c] = "send"]
  /\ acq' = [acq EXCEPT ![c] = @ + 1]
  /\ UNCHANGED <<scenario, refilling, interruptedAt, timer, invoked, wire, burst, ticks, calls, attempts, delays, first, got,
                 last, uniform, result, sent>>
  /\ UNCHANGED <<pageVars, hookVars, codecVars>>

\* --------------------------------------------------------------- pipeline
\* A caller invokes request(options): the pipeline starts at rateLimiter.acquire.
Invoke(c, call) ==
  /\ c \in scenario.clients
  /\ pc[c] \in {"idle", "done", "failed"}
  /\ calls[c] < scenario.quota
  /\ invoked' = [invoked EXCEPT ![c] = call]
  /\ wire' = [wire EXCEPT ![c] = NoRequest]
  /\ calls' = [calls EXCEPT ![c] = @ + 1]
  /\ pc' = [pc EXCEPT ![c] = "acquire"]
  /\ attempts' = [attempts EXCEPT ![c] = 0]
  /\ delays' = [delays EXCEPT ![c] = <<>>]
  /\ first' = [first EXCEPT ![c] = NoResponse]
  /\ got' = [got EXCEPT ![c] = NoResponse]
  /\ last' = [last EXCEPT ![c] = NoOutcome]
  /\ uniform' = [uniform EXCEPT ![c] = TRUE]
  /\ result' = [result EXCEPT ![c] = NoOutcome]
  /\ timer' = [timer EXCEPT ![c] = TimerAfter("invoke")]
  /\ UNCHANGED <<scenario, refilling, interruptedAt, burst, permits, ticks, acq, sent>>
  /\ UNCHANGED <<pageVars, hookVars, codecVars>>

SendExclusive(c) ==
  /\ pc[c] = "send"
  /\ \A d \in Callers \ {c} : pc[d] # "inflight"
  /\ pc' = [pc EXCEPT ![c] = "inflight"]
  /\ attempts' = [attempts EXCEPT ![c] = @ + 1]
  /\ sent' = [sent EXCEPT ![c] = @ + 1]
  /\ wire' = [wire EXCEPT ![c] = BuildRequest(Facade(invoked[c]))]
  /\ timer' = [timer EXCEPT ![c] = TimerAfter("send")]
  /\ UNCHANGED <<scenario, refilling, interruptedAt, invoked, burst, permits, ticks, calls, delays, first, got,
                 last, uniform, result, acq>>
  /\ UNCHANGED <<pageVars, hookVars, codecVars>>
\* After acquire: build URL, headers and body, call fetchFn(url, init).
Send(c) ==
  /\ pc[c] = "send"
  /\ pc' = [pc EXCEPT ![c] = "inflight"]
  /\ attempts' = [attempts EXCEPT ![c] = @ + 1]
  /\ sent' = [sent EXCEPT ![c] = @ + 1]
  /\ wire' = [wire EXCEPT ![c] = BuildRequest(Facade(invoked[c]))]
  /\ timer' = [timer EXCEPT ![c] = TimerAfter("send")]
  /\ UNCHANGED <<scenario, refilling, interruptedAt, invoked, burst, permits, ticks, calls, delays, first, got,
                 last, uniform, result, acq>>
  /\ UNCHANGED <<pageVars, hookVars, codecVars>>

SettleFirstError(c, r) ==
  LET out == AttemptOutcome(r) IN
  /\ pc[c] = "inflight"
  /\ got' = [got EXCEPT ![c] = r]
  /\ first' = [first EXCEPT ![c] = IF attempts[c] = 1 THEN r ELSE @]
  /\ last' = [last EXCEPT ![c] = out]
  /\ uniform' = [uniform EXCEPT ![c] = @ /\ (attempts[c] = 1 \/ last[c].code = out.code)]
  /\ timer' = [timer EXCEPT ![c] = TimerAfter("settle")]
  /\ IF out.tag = "error" /\ RetryWhile(out) /\ Len(delays[c]) < RetryTimes
     THEN /\ pc' = [pc EXCEPT ![c] = "backoff"]
          /\ delays' = [delays EXCEPT ![c] = Append(@, ExponentialDelay(Len(@)))]
          /\ UNCHANGED result
     ELSE /\ pc' = [pc EXCEPT ![c] = IF out.tag = "ok" THEN "done" ELSE "failed"]
          /\ result' = [result EXCEPT ![c] =
               IF out.tag = "error" /\ attempts[c] > 1 THEN AttemptOutcome(first[c]) ELSE out]
          /\ UNCHANGED delays
  /\ UNCHANGED <<scenario, refilling, interruptedAt, invoked, wire, burst, permits, ticks, calls, attempts, acq, sent>>
  /\ UNCHANGED <<pageVars, hookVars, codecVars>>
\* fetchFn settles with r; parseResponse; then Effect.retry decides: retry
\* after a delay while the schedule recurs and the predicate holds, otherwise
\* return the value or fail with this error.
Settle(c, r) ==
  LET out == AttemptOutcome(r) IN
  /\ pc[c] = "inflight"
  /\ got' = [got EXCEPT ![c] = r]
  /\ first' = [first EXCEPT ![c] = IF attempts[c] = 1 THEN r ELSE @]
  /\ last' = [last EXCEPT ![c] = out]
  /\ uniform' = [uniform EXCEPT ![c] = @ /\ (attempts[c] = 1 \/ last[c].code = out.code)]
  /\ timer' = [timer EXCEPT ![c] = TimerAfter("settle")]
  /\ IF out.tag = "error" /\ RetryWhile(out) /\ Len(delays[c]) < RetryTimes
     THEN /\ pc' = [pc EXCEPT ![c] = "backoff"]
          /\ delays' = [delays EXCEPT ![c] = Append(@, ExponentialDelay(Len(@)))]
          /\ UNCHANGED result
     ELSE /\ pc' = [pc EXCEPT ![c] = IF out.tag = "ok" THEN "done" ELSE "failed"]
          /\ result' = [result EXCEPT ![c] = out]
          /\ UNCHANGED delays
  /\ UNCHANGED <<scenario, refilling, interruptedAt, invoked, wire, burst, permits, ticks, calls, attempts, acq, sent>>
  /\ UNCHANGED <<pageVars, hookVars, codecVars>>

WakeToSend(c) ==
  /\ pc[c] = "backoff"
  /\ pc' = [pc EXCEPT ![c] = "send"]
  /\ UNCHANGED <<scenario, refilling, interruptedAt, timer, invoked, wire, burst, permits, ticks,
                 calls, attempts, delays, first, got, last, uniform, result, acq, sent>>
  /\ UNCHANGED <<pageVars, hookVars, codecVars>>
\* The backoff sleep is over: the whole effect, acquire included, runs again.
Wake(c) ==
  /\ pc[c] = "backoff"
  /\ pc' = [pc EXCEPT ![c] = "acquire"]
  /\ UNCHANGED <<scenario, refilling, interruptedAt, timer, invoked, wire, burst, permits, ticks, calls, attempts, delays, first,
                 got, last, uniform, result, acq, sent>>
  /\ UNCHANGED <<pageVars, hookVars, codecVars>>

Next ==
  \/ Refill
  \/ \E c \in Callers : \E call \in scenario.menu : Invoke(c, call)
  \/ \E c \in Callers : AcquireTake(c)
  \/ \E c \in Callers : AcquireRelease(c)
  \/ \E c \in Callers : Send(c)
  \/ \E c \in Callers : \E r \in scenario.remote : Settle(c, r)
  \/ \E c \in Callers : Wake(c)

Spec == Init /\ [][Next]_vars

\* The crowd of callers alone, with the scheduling the Effect runtime gives:
\* the refill daemon's sleep ends and its release runs; a fiber suspended in
\* the semaphore's transaction is resumed once a permit is there; the
\* release that withPermit ensures runs.
InitCrowd ==
  /\ InitClients({ s \in Scenarios : s.clients = Callers }, 1..MaxBurst)
  /\ InitNoWalk
  /\ InitNoHooks
  /\ InitNoCodec

Fairness ==
  /\ WF_vars(Refill)
  /\ \A c \in Callers : WF_vars(AcquireTake(c)) /\ WF_vars(AcquireRelease(c))

FairSpec == InitCrowd /\ [][Next]_vars /\ Fairness

\* ---------------------------------------------------------------- timeout
\* The signal of caller c's pending attempt fires: fetchFn rejects, and the
\* attempt settles as a transport failure.
Expire(c) ==
  /\ timer[c] = "armed"
  /\ Settle(c, Rejected)

NextTimeout ==
  \/ Next
  \/ \E c \in Callers : Expire(c)

\* Concurrent callers against a remote that answers every call it is given
\* the time to answer: an attempt ends with the page or with its timeout.
InitTimeout ==
  /\ InitClients({ [clients |-> Callers, quota |-> 1, menu |-> {RetrievePage},
                    remote |-> { r \in BasicResponses : r.status = 200 }] },
                 1..MaxBurst)
  /\ InitNoWalk
  /\ InitNoHooks
  /\ InitNoCodec

TimeoutSpec == InitTimeout /\ [][NextTimeout]_vars

\* ------------------------------------------------------------ interruption
InterruptLeaks(c) ==
  /\ pc[c] \in {"acquire", "permit", "send", "inflight", "backoff"}
  /\ pc' = [pc EXCEPT ![c] = "interrupted"]
  /\ interruptedAt' = [interruptedAt EXCEPT ![c] = pc[c]]
  /\ timer' = [timer EXCEPT ![c] = "off"]
  /\ UNCHANGED <<scenario, refilling, invoked, wire, burst, permits, ticks, calls, attempts,
                 delays, first, got, last, uniform, result, acq, sent>>
  /\ UNCHANGED <<pageVars, hookVars, codecVars>>
\* The fiber running request is interrupted.  A fiber suspended in the
\* semaphore's transaction has taken nothing; one that holds the permit runs
\* the release that withPermit ensures; after acquire no permit is held.  The
\* refill loop is a daemon fiber (Effect.forkDaemon), not a child of the
\* request fiber: the interruption does not reach it.
Interrupt(c) ==
  /\ pc[c] \in {"acquire", "permit", "send", "inflight", "backoff"}
  /\ pc' = [pc EXCEPT ![c] = "interrupted"]
  /\ interruptedAt' = [interruptedAt EXCEPT ![c] = pc[c]]
  /\ timer' = [timer EXCEPT ![c] = "off"]
  /\ permits' = IF pc[c] = "permit" THEN permits + 1 ELSE permits
  /\ UNCHANGED <<scenario, refilling, invoked, wire, burst, ticks, calls, attempts, delays,
                 first, got, last, uniform, result, acq, sent>>
  /\ UNCHANGED <<pageVars, hookVars, codecVars>>

NextInterrupt ==
  \/ Next
  \/ \E c \in Callers : Interrupt(c)

InterruptSpec == Init /\ [][NextInterrupt]_vars

\* ------------------------------------------------------------- pagination
\* fetchRecursive(cursor, accumulated): one call of fetchPage and the
\* flatMap continuation that follows it.
Fetch ==
  /\ walk = "fetching"
  /\ Len(passed) < MaxFetches
  /\ passed' = Append(passed, cursor)
  /\ IF failAt = Len(passed) + 1
     THEN /\ walk' = FetchFailed(raises, accumulated).walk
          /\ failure' = FetchFailed(raises, accumulated).failure
          /\ returned' = FetchFailed(raises, accumulated).returned
          /\ UNCHANGED <<cursor, accumulated>>
     ELSE /\ UNCHANGED failure
          /\ LET response == pages[FetchPage(cursor)]
                 newAccumulated == AppendAll(accumulated, response.results)
             IN IF response.has_more /\ OptionIsSomeThrows(response.next_cursor)
                THEN /\ walk' = "defect"
                     /\ UNCHANGED <<cursor, accumulated, returned>>
                ELSE IF response.has_more /\ OptionIsSome(response.next_cursor)
                THEN /\ cursor' = OptionGetOrNull(response.next_cursor)
                     /\ accumulated' = newAccumulated
                     /\ UNCHANGED <<walk, returned>>
                ELSE /\ walk' = "done"
                     /\ returned' = newAccumulated
                     /\ UNCHANGED <<cursor, accumulated>>
  /\ UNCHANGED <<pages, failAt, raises>>
  /\ UNCHANGED <<clientVars, hookVars, codecVars>>

\* fetchAllPages(fetchPage) is called: fetchRecursive() with no cursor and
\* an empty accumulator.
InitWalk ==
  /\ \E n \in 1..MaxPages : \E json \in BOOLEAN : pages \in PageLists(n, json)
  /\ failAt \in 0..MaxFetches
  /\ cursor = Undefined
  /\ accumulated = <<>>
  /\ passed = <<>>
  /\ walk = "fetching"
  /\ returned = <<>>
  /\ raises \in (IF failAt = 0 THEN {NoOutcome} ELSE FetchErrors)
  /\ failure = NoOutcome

\* No caller uses the client directly.
InitNoClients == InitClients({[clients |-> {}, quota |-> 0, menu |-> {}, remote |-> {}]}, {1})

InitPages == InitNoClients /\ InitWalk /\ InitNoHooks /\ InitNoCodec

NextPages == Fetch

PagesSpec == InitPages /\ [][NextPages]_vars

\* -------------------------------------------------------------- round trip
\* A property value goes out as a request body and comes back in a response:
\* init.body = JSON.stringify(options.body), then JSON.parse(text) as T.
InitCodec ==
  /\ original \in PropertyValues
  /\ encoded = NoJson
  /\ decoded = NoProperty
  /\ codec = "value"

Encode ==
  /\ codec = "value"
  /\ encoded' = StringifyProperty(original)
  /\ codec' = "encoded"
  /\ UNCHANGED <<original, decoded>>
  /\ UNCHANGED <<clientVars, pageVars, hookVars>>

Decode ==
  /\ codec = "encoded"
  /\ decoded' = ParseProperty(encoded)
  /\ codec' = "decoded"
  /\ UNCHANGED <<original, encoded>>
  /\ UNCHANGED <<clientVars, pageVars, hookVars>>

InitRoundTrip == InitNoClients /\ InitNoWalk /\ InitNoHooks /\ InitCodec

NextRoundTrip == Encode \/ Decode

RoundTripSpec == InitRoundTrip /\ [][NextRoundTrip]_vars

\* ---------------------------------------------------------------- webhook
\* The /edit-price handler (main.ts).  The handler effect is piped through
\* Effect.provide(NotionClientLayer({ auth })), so every run of it builds the
\* layer: createRateLimiter(3, 10) makes a TSemaphore and forks a refill
\* daemon that runs forever.
ParentTypes == {"database_id", "page_id", "workspace"}

\* the facade calls of invocation h go through the limiter built for it
HasPermit(h) == limiter[h] # 0 /\ buckets[limiter[h]].permits >= 1

\* A request reaches /edit-price: the layer is built, then the handler runs.
HookReceive(h) ==
  /\ stage[h] = "idle"
  /\ buckets' = Append(buckets, [permits |-> LayerBurst, ticks |-> 0])
  /\ daemons' = daemons \cup {Len(buckets) + 1}
  /\ limiter' = [limiter EXCEPT ![h] = Len(buckets) + 1]
  /\ stage' = [stage EXCEPT ![h] = "decode"]
  /\ UNCHANGED <<updates, checks, price, lookup, discount, number>>
  /\ UNCHANGED <<clientVars, pageVars, codecVars>>

\* The refill daemon of bucket b: sleep, then releaseN(semaphore, 1).
HookRefill(b) ==
  /\ b \in daemons
  /\ buckets[b].ticks < MaxTicks
  /\ buckets' = [buckets EXCEPT ![b] = [permits |-> @.permits + 1, ticks |-> @.ticks + 1]]
  /\ UNCHANGED <<stage, limiter, daemons, updates, checks, price, lookup, discount, number>>
  /\ UNCHANGED <<clientVars, pageVars, codecVars>>

\* schemaBodyJson decodes the notification; data.parent.type is checked.
HookDecode(h, valid, parent) ==
  /\ stage[h] = "decode"
  /\ stage' = [stage EXCEPT ![h] =
       IF ~valid THEN "failed"
       ELSE IF parent # "database_id" THEN "answered" ELSE "query"]
  /\ checks' = [checks EXCEPT ![h] = IF valid /\ parent = "database_id" THEN @ + 1 ELSE @]
  /\ UNCHANGED <<limiter, buckets, daemons, updates, price, lookup, discount, number>>
  /\ UNCHANGED <<clientVars, pageVars, codecVars>>

\* client.databases.query(data.parent.database_id), results.at(0)!, and the
\* check of result.parent.type; on an empty result list the check throws.
HookQuery(h, ok, empty, parent) ==
  /\ stage[h] = "query"
  /\ HasPermit(h)
  /\ stage' = [stage EXCEPT ![h] =
       IF ~ok THEN "failed"
       ELSE IF empty THEN "died"
       ELSE IF parent # "database_id" THEN "answered" ELSE "retrieve"]
  /\ checks' = [checks EXCEPT ![h] =
       IF ok /\ ~empty /\ parent = "database_id" THEN @ + 1 ELSE @]
  /\ UNCHANGED <<limiter, buckets, daemons, updates, price, lookup, discount, number>>
  /\ UNCHANGED <<clientVars, pageVars, codecVars>>

\* client.databases.retrieve(result.parent.database_id) and the check of
\* database.parent.type.
HookRetrieve(h, ok, parent) ==
  /\ stage[h] = "retrieve"
  /\ HasPermit(h)
  /\ stage' = [stage EXCEPT ![h] =
       IF ~ok THEN "failed"
       ELSE IF parent # "page_id" THEN "answered" ELSE "price"]
  /\ checks' = [checks EXCEPT ![h] = IF ok /\ parent = "page_id" THEN @ + 1 ELSE @]
  /\ UNCHANGED <<limiter, buckets, daemons, updates, price, lookup, discount, number>>
  /\ UNCHANGED <<clientVars, pageVars, codecVars>>

\* The number the handler takes from one "Цена" property.
PriceOf(h) ==
  IF h.type = "number" THEN h.number
  ELSE IF h.type = "formula" /\ h.formula = "number" THEN h.number
  ELSE 0

\* Array.reduce(0, (accum, h) => accum + h) over the numbers of the rows.
RECURSIVE SumPrices(_)
SumPrices(rows) ==
  IF rows = <<>> THEN 0 ELSE PriceOf(Head(rows)) + SumPrices(Tail(rows))

\* blocks.children.list and one databases.query per child database: one of
\* the calls fails and the handler with it, or reading h.type of a row
\* without a "Цена" property throws, or the price is the sum over the rows.
HookPrice(h, ok, rows) ==
  /\ stage[h] = "price"
  /\ HasPermit(h)
  /\ stage' = [stage EXCEPT ![h] =
       IF ~ok THEN "failed"
       ELSE IF \E i \in DOMAIN rows : rows[i] = NoSuchProperty THEN "died"
       ELSE "discount"]
  /\ price' = [price EXCEPT ![h] =
       IF ok /\ \A i \in DOMAIN rows : rows[i] # NoSuchProperty THEN SumPrices(rows) ELSE @]
  /\ UNCHANGED <<limiter, buckets, daemons, updates, checks, lookup, discount, number>>
  /\ UNCHANGED <<clientVars, pageVars, codecVars>>

\* The discount pipeline up to catchAll: pages.retrieve of the parent page,
\* its "🧔 Клиенты" property, pages.retrieve of the first related page, its
\* "Скидка" property.  filterOrFail and a failed call end in the error
\* channel; h.type of a missing property and relation[0].id of an empty
\* relation throw in a callback, which is a defect.
DiscountLookup(pageOk, clients, clientOk, rate) ==
  IF ~pageOk THEN Exit("failure", "pages.retrieve(parent)", 0)
  ELSE IF clients = NoSuchProperty THEN Exit("defect", "Clients.type", 0)
  ELSE IF clients.type # "relation" THEN Exit("failure", "Clients is no relation", 0)
  ELSE IF clients.relation = <<>> THEN Exit("defect", "relation[0].id", 0)
  ELSE IF ~clientOk THEN Exit("failure", "pages.retrieve(client)", 0)
  ELSE IF rate = NoSuchProperty THEN Exit("defect", "Discount.type", 0)
  ELSE IF rate.type # "formula" THEN Exit("failure", "Discount is no formula", 0)
  ELSE IF rate.formula # "number" THEN Exit("value", "formula is no number", 0)
  ELSE Exit("value", "formula.number", rate.number)

\* h === 1 ? 0 : h on a value, and catchAll(() => succeed(0)) on a failure.
DiscountUsed(found) ==
  IF found.exit = "value" THEN (IF found.value = 1 THEN 0 ELSE found.value) ELSE 0

\* The discount lookup: catchAll recovers a failure; a defect passes it and
\* ends the handler.
HookDiscount(h, pageOk, clients, clientOk, rate) ==
  /\ stage[h] = "discount"
  /\ HasPermit(h)
  /\ LET found == DiscountLookup(pageOk, clients, clientOk, rate) IN
       /\ lookup' = [lookup EXCEPT ![h] = found]
       /\ stage' = [stage EXCEPT ![h] = IF found.exit = "defect" THEN "died" ELSE "update"]
       /\ discount' = [discount EXCEPT ![h] =
            IF found.exit = "defect" THEN @ ELSE DiscountUsed(found)]
  /\ UNCHANGED <<limiter, buckets, daemons, updates, checks, price, number>>
  /\ UNCHANGED <<clientVars, pageVars, codecVars>>

\* price * (1 - discount / 100); the prices of the model are multiples of
\* 100, so the division is exact.
Discounted(p, d) == (p * (100 - d)) \div 100

\* client.pages.update(parent page, { Цена: { number } }), then
\* HttpServerResponse.empty().
HookUpdate(h, ok) ==
  /\ stage[h] = "update"
  /\ HasPermit(h)
  /\ updates' = [updates EXCEPT ![h] = @ + 1]
  /\ number' = [number EXCEPT ![h] = Discounted(price[h], discount[h])]
  /\ stage' = [stage EXCEPT ![h] = IF ok THEN "answered" ELSE "failed"]
  /\ UNCHANGED <<limiter, buckets, daemons, checks, price, lookup, discount>>
  /\ UNCHANGED <<clientVars, pageVars, codecVars>>

InitWebhook == InitNoClients /\ InitNoWalk /\ InitHooks /\ InitNoCodec

NextWebhook ==
  \/ \E h \in Hooks : HookReceive(h)
  \/ \E b \in 1..MaxHooks : HookRefill(b)
  \/ \E h \in Hooks : \E valid \in BOOLEAN : \E parent \in ParentTypes :
       HookDecode(h, valid, parent)
  \/ \E h \in Hooks : \E ok, empty \in BOOLEAN : \E parent \in ParentTypes :
       HookQuery(h, ok, empty, parent)
  \/ \E h \in Hooks : \E ok \in BOOLEAN : \E parent \in ParentTypes :
       HookRetrieve(h, ok, parent)
  \/ \E h \in Hooks : \E ok \in BOOLEAN : \E rows \in PriceRows : HookPrice(h, ok, rows)
  \/ \E h \in Hooks : \E pageOk, clientOk \in BOOLEAN :
       \E clients \in ClientsProperties : \E rate \in DiscountProperties :
         HookDiscount(h, pageOk, clients, clientOk, rate)
  \/ \E h \in Hooks : \E ok \in BOOLEAN : HookUpdate(h, ok)

WebhookSpec == InitWebhook /\ [][NextWebhook]_vars

\* ================================================================ claims
RECURSIVE SumOver(_, _)
SumOver(f, S) ==
  IF S = {} THEN 0
  ELSE LET x == CHOOSE y \in S : TRUE IN f[x] + SumOver(f, S \ {x})

\* network calls started so far through the limiter, by all callers
TotalSent == SumOver(sent, Callers)

RECURSIVE Concat(_, _)
Concat(ps, k) == IF k = 0 THEN <<>> ELSE Concat(ps, k - 1) \o ps[k].results

RateLimited429 ==
  [kind |-> "response", status |-> 429, readable |-> TRUE, text |-> ErrorText("rate_limited")]
Page200 == [kind |-> "response", status |-> 200, readable |-> TRUE, text |-> PageText]
Garbage200 == [kind |-> "response", status |-> 200, readable |-> TRUE, text |-> GarbageText]

TransientCodes ==
  {"rate_limited", "internal_server_error", "service_unavailable", "gateway_timeout"}
PermanentCodes ==
  {"validation_error", "object_not_found", "unauthorized", "restricted_resource",
   "conflict_error", "invalid_request", "invalid_request_url", "missing_version",
   "invalid_json", "database_connection_unavailable"}

\* C1: the available permits never exceed burst, whatever acquires and
\* refill ticks came before.
C1_PermitsAtMostBurst == permits <= burst

\* C2: before the first refill tick at most burst callers have completed
\* their acquire; one more completes only after a tick.
C2_ExtraAcquireWaitsForTick ==
  ticks = 0 => Cardinality({c \in Callers : acq[c] >= 1}) <= burst

\* C3: permits are added only by the refill task, never by a caller: the
\* count rises only in a step that is a refill tick.
C3_PermitsRiseOnlyByRefill == [][permits' > permits => ticks' = ticks + 1]_vars

\* C4: the network attempts started so far through the limiter number at
\* most burst plus the refill ticks so far.
C4_AttemptsWithinBudget == TotalSent <= burst + ticks

\* C5: when every attempt of a request failed with one and the same
\* transient code, the request makes exactly 4 attempts, sleeps 1s, 2s and 4s
\* between them, and then fails with that error.
C5_TransientRetriedThrice ==
  \A c \in Callers : \A code \in TransientCodes :
    (uniform[c] /\ last[c].tag = "error" /\ last[c].code = code) =>
      /\ attempts[c] <= 4
      /\ pc[c] = "failed" =>
           /\ attempts[c] = 4
           /\ delays[c] = <<1000, 2000, 4000>>
           /\ result[c] = last[c]
      /\ (attempts[c] = 4 /\ pc[c] # "inflight") => pc[c] = "failed"
      /\ pc[c] = "backoff" => delays[c] = SubSeq(<<1000, 2000, 4000>>, 1, attempts[c])

C5_Witness ==
  \E c \in Callers :
    /\ pc[c] = "failed" /\ uniform[c] /\ attempts[c] = 4
    /\ result[c].code = "service_unavailable"
    /\ delays[c] = <<1000, 2000, 4000>>

\* C6: a request whose first attempt fails with a code outside the
\* transient set makes exactly 1 attempt and fails with that error, with no
\* backoff sleep.
C6_PermanentNotRetried ==
  \A c \in Callers :
    (first[c].kind # "none" /\ AttemptOutcome(first[c]).tag = "error"
       /\ AttemptOutcome(first[c]).code \in PermanentCodes) =>
      /\ attempts[c] = 1
      /\ pc[c] = "failed"
      /\ delays[c] = <<>>
      /\ result[c] = AttemptOutcome(first[c])

C6_Witness ==
  \E c \in Callers :
    /\ pc[c] = "failed" /\ attempts[c] = 1
    /\ first[c].status = 400 /\ result[c].code = "validation_error"

\* C7: a 429 rate_limited response to the first attempt followed by a 200
\* response with a JSON page to the second gives exactly one retry and a
\* successful result holding the decoded page.
C7_RetryThenPage ==
  \A c \in Callers :
    (first[c] = RateLimited429 /\ attempts[c] = 2 /\ got[c] = Page200) =>
      /\ pc[c] = "done"
      /\ Len(delays[c]) = 1
      /\ result[c].tag = "ok"
      /\ result[c].value = "page"

C7_Witness ==
  \E c \in Callers :
    /\ first[c] = RateLimited429 /\ got[c] = Page200
    /\ attempts[c] = 2 /\ pc[c] = "done" /\ result[c].value = "page"

\* C8: a 2xx response whose body is not JSON makes the request fail with a
\* NotionError of code invalid_json, and that failure is not retried.
C8_InvalidJsonFails ==
  \A c \in Callers :
    /\ (got[c].kind = "response" /\ ResponseOk(got[c].status) /\ got[c].readable
          /\ ~got[c].text.json) =>
         /\ pc[c] = "failed"
         /\ result[c].tag = "error"
         /\ result[c].code = "invalid_json"
    /\ (first[c].kind = "response" /\ ResponseOk(first[c].status) /\ first[c].readable
          /\ ~first[c].text.json) =>
         /\ attempts[c] = 1
         /\ delays[c] = <<>>

C8_Witness ==
  \E c \in Callers :
    /\ first[c] = Garbage200 /\ pc[c] = "failed"
    /\ attempts[c] = 1 /\ result[c].code = "invalid_json"

\* C9: every invocation issues at least 1 and at most 4 network calls, and
\* nothing is cached: each further invocation issues network calls again.
C9_OneToFourCalls ==
  \A c \in Callers :
    /\ attempts[c] <= 4
    /\ pc[c] \in {"inflight", "backoff", "done", "failed"} => attempts[c] >= 1
    /\ pc[c] \in {"done", "failed"} => (sent[c] >= calls[c] /\ sent[c] <= 4 * calls[c])

C9_Witness ==
  \E c \in Callers : calls[c] = 2 /\ pc[c] = "done" /\ attempts[c] = 4 /\ sent[c] = 5

\* the fetch function serves P1..Pn: every page before the last has
\* has_more and the cursor of its successor, the last has neither
ServesListing ==
  /\ walk # "off"
  /\ failAt = 0
  /\ \A k \in 1..(Len(pages) - 1) :
       pages[k].has_more /\ pages[k].next_cursor = OptionSome(k + 1)
  /\ ~pages[Len(pages)].has_more
  /\ pages[Len(pages)].next_cursor = OptionNone

C11_FailurePropagates ==
  /\ (failAt # 0 /\ Len(passed) >= failAt) =>
       /\ walk = "failed"
       /\ failure = raises
       /\ failure.tag = "error"
       /\ returned = <<>>
       /\ Len(passed) = failAt
  /\ walk = "failed" => (failAt # 0 /\ Len(passed) = failAt)

C11_Witness ==
  /\ walk = "failed"
  /\ failAt = 2
  /\ Len(passed) = 2
  /\ accumulated = <<"A", "B">>
  /\ failure = raises
  /\ failure.code = "object_not_found"
  /\ returned = <<>>

\* the fetch function is a facade list operation over a remote listing
\* P1..Pn: its pages are response bodies as JSON.parse yields them, every
\* page before the last with has_more and the token of its successor as a
\* string, the last with has_more false and next_cursor null
ServesRemoteListing ==
  /\ walk # "off"
  /\ failAt = 0
  /\ \A k \in 1..(Len(pages) - 1) :
       pages[k].has_more /\ pages[k].next_cursor = JsonString(k + 1)
  /\ ~pages[Len(pages)].has_more
  /\ pages[Len(pages)].next_cursor = JsonNull

\* C12: driven by a facade list operation, a page with has_more and a
\* next_cursor token leads to a further call with that token, and the
\* traversal returns the results of all remote pages.
C12_FacadeTraversalComplete ==
  ServesRemoteListing =>
    /\ walk \in {"fetching", "done"}
    /\ walk = "done" =>
         /\ returned = Concat(pages, Len(pages))
         /\ Len(passed) = Len(pages)
         /\ \A k \in 2..Len(passed) : passed[k] = JsonString(k)

C14_AcquireReturns ==
  \A c \in Callers : (pc[c] = "acquire") ~> (pc[c] = "send")

\* a caller waits in acquire with no permit left, another holding it
C14_Witness ==
  \E c, d \in Callers :
    /\ pc[c] = "acquire"
    /\ permits = 0
    /\ pc[d] = "permit"
    /\ acq[d] >= 1

\* C15: there is never more than one rate-limiter state nor more than one
\* refill task, however many webhook invocations are handled.
C15_OneBucketOneDaemon ==
  /\ Len(buckets) <= 1
  /\ Cardinality(daemons) <= 1
  /\ \A g, h \in Hooks : (limiter[g] # 0 /\ limiter[h] # 0) => limiter[g] = limiter[h]

\* permits taken and not yet given back
Holders == { c \in Callers : pc[c] = "permit" }

\* C16: interrupting or failing a request at any point leaves the refill
\* daemon running and the permit count what it is when requests complete
\* normally: the count is fixed by burst, the ticks so far and the permits
\* held at this moment, whatever became of the requests.
C16_InterruptKeepsLimiter ==
  /\ refilling
  /\ permits = burst + ticks - Cardinality(Holders)

C16_Witness ==
  \E c, d \in Callers :
    /\ interruptedAt[c] = "acquire"
    /\ interruptedAt[d] = "backoff"
    /\ ticks >= 1
    /\ permits = burst + ticks

\* a response with a failure status whose body text could be read
FailureResponse(r) == r.kind = "response" /\ r.readable /\ ~ResponseOk(r.status)

\* the body is JSON with a code of the enumeration and a message
ErrorPayload(text) ==
  text.json /\ text.doc.code \in NotionErrorCode /\ text.doc.message # "undefined"

Empty502 == [kind |-> "response", status |-> 502, readable |-> TRUE, text |-> EmptyText]
Garbage404 == [kind |-> "response", status |-> 404, readable |-> TRUE, text |-> GarbageText]

\* C17 as stated: a failure status with a structured error payload gives an
\* error with the HTTP status and the payload's code, message and request
\* id; with any other body it gives internal_server_error, the HTTP status
\* and the raw body text as message.
C17_PayloadOrRawText ==
  \A c \in Callers :
    FailureResponse(got[c]) =>
      /\ last[c].tag = "error"
      /\ last[c].status = got[c].status
      /\ IF ErrorPayload(got[c].text)
         THEN /\ last[c].code = got[c].text.doc.code
              /\ last[c].message = got[c].text.doc.message
              /\ last[c].requestId = got[c].text.doc.request_id
         ELSE /\ last[c].code = "internal_server_error"
              /\ last[c].message = got[c].text.raw

\* C17 amended: as above, except that the message of the fallback error is
\* the raw body text only when that text is not empty; for an empty body it
\* is the status text of the response.
C17_PayloadOrTextOrStatusText ==
  \A c \in Callers :
    FailureResponse(got[c]) =>
      /\ last[c].tag = "error"
      /\ last[c].status = got[c].status
      /\ pc[c] = "failed" => result[c] = last[c]
      /\ IF ErrorPayload(got[c].text)
         THEN /\ last[c].code = got[c].text.doc.code
              /\ last[c].message = got[c].text.doc.message
              /\ last[c].requestId = got[c].text.doc.request_id
         ELSE /\ last[c].code = "internal_server_error"
              /\ got[c].text.raw # "" => last[c].message = got[c].text.raw
              /\ got[c] = Empty502 => last[c].message = "Bad Gateway"

C17_Witness ==
  \E c \in Callers :
    /\ first[c] = Garbage404
    /\ got[c] = Empty502
    /\ attempts[c] = 2
    /\ last[c] = Failure(502, "internal_server_error", "Bad Gateway", "undefined")

\* C18: a transport failure of the network call becomes an error with
\* status 0 and code internal_server_error and is retried like a transient
\* error: the request fails only after its 4th attempt.
C18_TransportFailureRetried ==
  \A c \in Callers :
    got[c].kind = "reject" =>
      /\ last[c].tag = "error"
      /\ last[c].status = 0
      /\ last[c].code = "internal_server_error"
      /\ \/ pc[c] = "backoff" /\ attempts[c] < 4
         \/ pc[c] = "failed" /\ attempts[c] = 4 /\ result[c] = last[c]
         \/ pc[c] \in {"acquire", "permit", "send"} /\ attempts[c] < 4
         \/ pc[c] = "inflight" /\ attempts[c] \in 2..4
      /\ (first[c].kind = "reject" /\ uniform[c] /\ pc[c] = "failed") =>
           delays[c] = <<1000, 2000, 4000>>

C18_Witness ==
  \E c \in Callers :
    /\ first[c].kind = "reject"
    /\ got[c].kind = "reject"
    /\ uniform[c]
    /\ pc[c] = "failed"
    /\ attempts[c] = 4
    /\ result[c] = Failure(0, "internal_server_error", "Network error", "undefined")

\* C19: a facade call is one pipeline request whose method and path are
\* fixed by the operation alone, and its outcome is the pipeline's: the value
\* or the identical error, with a code of the enumeration.
C19_FacadeDelegates ==
  \A c \in Callers :
    invoked[c] \in FacadeCalls =>
      /\ wire[c] # NoRequest =>
           /\ wire[c].method \in {"GET", "POST", "PATCH", "DELETE"}
           /\ \A other \in FacadeCalls :
                other.op = invoked[c].op =>
                  /\ wire[c].method = Facade(other).method
                  /\ wire[c].url.path = Facade(other).path
      /\ pc[c] \in {"done", "failed"} =>
           /\ result[c] = AttemptOutcome(got[c])
           /\ (pc[c] = "failed") = (result[c].tag = "error")
           /\ result[c].tag = "error" => result[c].code \in NotionErrorCode
      /\ scenario.menu = FacadeCalls => calls[c] = 1

C19_Witness ==
  \E c \in Callers :
    /\ scenario.menu = FacadeCalls
    /\ invoked[c] = [op |-> "databases.query", given |-> FALSE]
    /\ pc[c] = "failed"
    /\ wire[c].method = "POST"
    /\ wire[c].body = "{}"
    /\ result[c] = Failure(404, "object_not_found", "msg", "rid")

\* a property value as PropertyValue declares it
Declared(v) == v.type \in PropertyTags /\ v.payload \in DeclaredPayloads(v.type)

\* C20: a property value of any tag, in any of the three optionality states
\* (present, explicitly absent, omitted), that is serialized by the body
\* encoding and decoded by the response decoding comes back equal.
C20_RoundTripEqual ==
  (codec = "decoded" /\ Declared(original)) => decoded = original

\* C21: every network call of a request, the first and each retry, comes
\* after an acquire of its own that has completed: acquires and network
\* calls alternate, with one backoff sleep between a failed call and the
\* next acquire.
C21_AcquireBeforeEachCall ==
  \A c \in Callers :
    /\ pc[c] = "send" => acq[c] = sent[c] + 1
    /\ pc[c] # "send" => acq[c] = sent[c]
    /\ pc[c] \in {"acquire", "permit", "send", "backoff"} => Len(delays[c]) = attempts[c]
    /\ pc[c] \in {"inflight", "done", "failed"} => Len(delays[c]) = attempts[c] - 1

C21_Witness ==
  \E c \in Callers :
    /\ pc[c] = "done"
    /\ attempts[c] = 3
    /\ Len(delays[c]) = 2
    /\ acq[c] = 3
    /\ sent[c] = 3

\* the response to call k of the fetch function (a call that did not fail)
ResponseTo(k) == pages[FetchPage(passed[k])]

\* C22: the first call of the fetch function gets no cursor; every later
\* call gets the token of the next_cursor of the response just before it,
\* unchanged; and a response with has_more and a cursor is never the last.
C22_CursorsChained ==
  /\ Len(passed) >= 1 => passed[1] = Undefined
  /\ \A k \in 2..Len(passed) :
       /\ ResponseTo(k - 1).has_more
       /\ ResponseTo(k - 1).next_cursor.rep = "Some"
       /\ passed[k] = JsonString(ResponseTo(k - 1).next_cursor.tok)
  /\ walk = "done" =>
       ~(ResponseTo(Len(passed)).has_more
           /\ ResponseTo(Len(passed)).next_cursor.rep = "Some")

C22_Witness ==
  /\ walk = "done"
  /\ pages[1].has_more
  /\ pages[1].next_cursor = OptionSome(2)
  /\ passed = <<Undefined, JsonString(2)>>

\* C23: the traversal ends only if a call of the fetch function failed or a
\* response reported has_more false or carried no cursor; as long as every
\* response has has_more and a cursor it goes on calling.
C23_EndsOnlyOnFailureOrLastPage ==
  walk \in {"done", "failed", "defect"} =>
    \/ failAt # 0 /\ Len(passed) >= failAt
    \/ \E k \in 1..Len(passed) :
         \/ ~ResponseTo(k).has_more
         \/ ResponseTo(k).next_cursor.rep \in {"None", "null"}

\* C24: a response with has_more but no cursor (null) ends the traversal
\* successfully with everything accumulated, that page's results included,
\* with no further call of the fetch function and no failure or defect.
C24_MissingCursorReturns ==
  \A k \in 1..Len(passed) :
    (failAt # k /\ ResponseTo(k).has_more
       /\ ResponseTo(k).next_cursor.rep \in {"None", "null"}) =>
      /\ walk = "done"
      /\ Len(passed) = k
      /\ returned = AppendAll(accumulated, ResponseTo(k).results)

HeaderNames(request) == { h[1] : h \in request.headers }

\* C25: every request sent, on every attempt, carries the Authorization
\* (bearer) and Notion-Version headers, carries Content-Type exactly when it
\* has a body, and has a serialized body exactly when the operation passed
\* one to the pipeline.
C25_HeadersAndBody ==
  \A c \in Callers :
    wire[c] # NoRequest =>
      /\ <<"Authorization", "Bearer ${config.auth}">> \in wire[c].headers
      /\ "Notion-Version" \in HeaderNames(wire[c])
      /\ ("Content-Type" \in HeaderNames(wire[c])) = (wire[c].body # "undefined")
      /\ (wire[c].body # "undefined") = (Facade(invoked[c]).body # "undefined")
      /\ wire[c].body # "undefined" => wire[c].body = JSONStringify(Facade(invoked[c]).body)

C25_Witness ==
  \E c \in Callers :
    /\ invoked[c].op = "pages.create"
    /\ attempts[c] = 2
    /\ pc[c] = "done"
    /\ <<"Content-Type", "application/json">> \in wire[c].headers
    /\ wire[c].body = "json(request)"

\* C26: acquire never ends in a failure: a caller inside acquire either
\* stays there or gets past it, with nothing returned to its own caller yet;
\* and with the refill daemon ticking, a caller that finds no permit does
\* get past it.
C26_AcquireNeverFails ==
  /\ [][\A c \in Callers :
          pc[c] \in {"acquire", "permit"} =>
            /\ pc'[c] \in {"acquire", "permit", "send"}
            /\ result'[c] = result[c]]_vars
  /\ \A c \in Callers :
       (pc[c] = "acquire" /\ permits = 0) ~> (pc[c] = "send" /\ result[c] = NoOutcome)

\* a caller on a retry finds no permit: the other caller holds it
C26_Witness ==
  \E c, d \in Callers :
    /\ pc[c] = "acquire"
    /\ attempts[c] >= 1
    /\ permits = 0
    /\ pc[d] = "permit"

\* C27: a timeout is pending for a caller exactly while an attempt of it is
\* in flight, so never while it waits in acquire or sleeps in a backoff, and
\* each attempt has one of its own; a timeout that fires ends that attempt
\* only: the other callers stay where they are with their timeouts, and the
\* request goes on to its next attempt while it has retries left.
C27_TimeoutPerAttempt ==
  /\ [](\A c \in Callers : (timer[c] = "armed") = (pc[c] = "inflight"))
  /\ [][\A c \in Callers :
          (pc[c] = "inflight" /\ pc'[c] # "inflight" /\ got'[c] = Rejected) =>
            /\ \A d \in Callers \ {c} : pc'[d] = pc[d] /\ timer'[d] = timer[d]
            /\ attempts[c] < 4 => pc'[c] = "backoff"
            /\ attempts[c] = 4 => pc'[c] = "failed"]_vars

C27_Witness ==
  \E c, d \in Callers :
    /\ c # d
    /\ got[c] = Rejected
    /\ attempts[c] = 2
    /\ pc[c] = "inflight"
    /\ timer[c] = "armed"
    /\ pc[d] = "inflight"
    /\ attempts[d] = 1
    /\ timer[d] = "armed"

\* a response with a page, which the remote of every scenario can send
PageResponse == [kind |-> "response", status |-> 200, readable |-> TRUE, text |-> PageText]

\* C28: concurrent requests wait for each other nowhere but in acquire:
\* whatever the others do, a caller past acquire can take its next step, and
\* of two calls in flight either can complete first; and a step that
\* settles an attempt of one caller leaves every other caller's attempts,
\* backoff sleeps, position and result as they are.
C28_IndependentRequests ==
  /\ [](\A c \in Callers :
         /\ (pc[c] = "acquire" /\ permits >= 1) => ENABLED AcquireTake(c)
         /\ pc[c] = "permit" => ENABLED AcquireRelease(c)
         /\ pc[c] = "send" => ENABLED Send(c)
         /\ pc[c] = "inflight" => ENABLED Settle(c, PageResponse)
         /\ pc[c] = "backoff" => ENABLED Wake(c))
  /\ [][\A c, d \in Callers :
          (c # d /\ (got'[d] # got[d] \/ last'[d] # last[d] \/ attempts'[d] # attempts[d])) =>
            /\ attempts'[c] = attempts[c]
            /\ delays'[c] = delays[c]
            /\ pc'[c] = pc[c]
            /\ result'[c] = result[c]]_vars

\* one caller used up its retries on failures while the other was served
\* at its first attempt, with no backoff
C28_Witness ==
  \E c, d \in Callers :
    /\ c # d
    /\ pc[c] = "failed"
    /\ attempts[c] = 4
    /\ result[c].code = "rate_limited"
    /\ pc[d] = "done"
    /\ attempts[d] = 1
    /\ delays[d] = <<>>

\* the invocation has ended: answered, failed on a call, or died of a defect
Ended(h) == stage[h] \in {"answered", "failed", "died"}

\* none of the read calls of invocation h has failed
ReadsSucceeded(h) ==
  /\ ~(stage[h] = "failed" /\ updates[h] = 0)
  /\ lookup[h].step \notin {"pages.retrieve(parent)", "pages.retrieve(client)"}

\* C29: an invocation of /edit-price issues at most one pages.update call:
\* exactly one once it has ended after passing the three parent-type checks
\* with every read call succeeding, and none when a parent-type check
\* failed, which ends it with the empty response.
C29_AtMostOneUpdate ==
  \A h \in Hooks :
    /\ updates[h] <= 1
    /\ (Ended(h) /\ checks[h] = 3 /\ ReadsSucceeded(h)) => updates[h] = 1
    /\ (stage[h] = "answered" /\ checks[h] < 3) => updates[h] = 0

\* C30: when the looked-up discount is exactly 1, and when a step of the
\* lookup does not yield a discount (no relation, no formula, a failed
\* retrieve), the discount used is 0 and the handler goes on to the update,
\* which sends the undiscounted price.
C30_NoDiscountStillUpdates ==
  \A h \in Hooks :
    (lookup[h] # NoLookup /\ (lookup[h].exit # "value" \/ lookup[h].value = 1)) =>
      /\ discount[h] = 0
      /\ stage[h] \in {"update", "answered", "failed"}
      /\ stage[h] # "update" => (updates[h] = 1 /\ number[h] = price[h])

\* the body of a response is no structured error: it is no JSON, or its
\* code is none of the enumerated codes, or it has no message
Unstructured(text) ==
  \/ ~text.json
  \/ text.doc.code \notin NotionErrorCode
  \/ text.doc.message = "undefined"

\* the latest settled attempt of c got a failure status with such a body
GotUnstructuredFailure(c) ==
  /\ got[c].kind = "response"
  /\ got[c].readable
  /\ ~ResponseOk(got[c].status)
  /\ Unstructured(got[c].text)

\* C31: a response with a failure status and a body that is no structured
\* error becomes internal_server_error with the status of the response,
\* whatever that status is, and is retried: the invocation does not end
\* on it before the fourth attempt, after sleeps of 1, 2 and 4 seconds.
C31_UnstructuredFailureRetried ==
  \A c \in Callers :
    GotUnstructuredFailure(c) =>
      /\ last[c].tag = "error"
      /\ last[c].code = "internal_server_error"
      /\ last[c].status = got[c].status
      /\ pc[c] # "done"
      /\ pc[c] = "failed" =>
           /\ attempts[c] = RetryTimes + 1
           /\ delays[c] = <<1000, 2000, 4000>>
           /\ result[c] = last[c]

\* four attempts that each got 404 with a body that is no JSON
C31_Witness ==
  \E c \in Callers :
    /\ pc[c] = "failed"
    /\ got[c].status = 404
    /\ got[c].text = GarbageText
    /\ first[c] = got[c]
    /\ uniform[c]
    /\ attempts[c] = 4
    /\ result[c].code = "internal_server_error"
    /\ result[c].status = 404

\* C32: whatever an attempt or an invocation ends with is a value or a
\* NotionError whose code is one of the enumerated codes and whose message
\* is a string; a failure status with a JSON body whose code is missing or
\* outside the enumeration gives internal_server_error, never that code.
C32_FailuresAreStructured ==
  \A c \in Callers :
    /\ last[c].tag \in {"none", "ok", "error"}
    /\ result[c].tag \in {"none", "ok", "error"}
    /\ last[c].tag = "error" => (last[c].code \in NotionErrorCode /\ last[c].message # "undefined")
    /\ result[c].tag = "error" =>
         (result[c].code \in NotionErrorCode /\ result[c].message # "undefined")
    /\ (GotUnstructuredFailure(c) /\ got[c].text.json
          /\ got[c].text.doc.code \notin NotionErrorCode) =>
         /\ last[c].code = "internal_server_error"
         /\ last[c].code # got[c].text.doc.code
         /\ last[c].message = got[c].text.raw

\* invocations that failed after attempts that got a JSON error body with
\* no code, and with a code outside the enumeration
C32_Witness ==
  \E c \in Callers :
    /\ pc[c] = "failed"
    /\ result[c].tag = "error"
    /\ first[c].text = CodelessText
    /\ got[c].text = ForeignText
    /\ got[c].text.doc.code = "teapot"
    /\ result[c].code = "internal_server_error"

\* the outcome ends the retrying: a value, or an error the predicate rejects
Final(out) == out.tag = "ok" \/ (out.tag = "error" /\ ~RetryWhile(out))

\* C33: an invocation ends at its first attempt that succeeds or fails
\* with a non-retryable code, also after retryable failures; it returns
\* the outcome of the last attempt made; and after that attempt no network
\* call is made before the caller invokes again.
C33_StopsAtFinalOutcome ==
  /\ [](\A c \in Callers :
         /\ pc[c] \in {"done", "failed"} =>
              /\ result[c] = last[c]
              /\ result[c] = AttemptOutcome(got[c])
              /\ Final(result[c]) \/ attempts[c] = RetryTimes + 1
         /\ pc[c] \in {"backoff", "acquire", "permit", "send"} /\ attempts[c] >= 1 =>
              ~Final(last[c]))
  /\ [][\A c \in Callers :
          /\ (pc[c] = "inflight" /\ pc'[c] # "inflight" /\ Final(last'[c])) =>
               (pc'[c] \in {"done", "failed"} /\ result'[c] = last'[c])
          /\ (pc[c] \in {"done", "failed"} /\ pc'[c] # pc[c]) =>
               (calls'[c] = calls[c] + 1 /\ attempts'[c] = 0 /\ sent'[c] = sent[c])
          /\ (pc[c] \in {"done", "failed"} /\ pc'[c] = pc[c]) =>
               (sent'[c] = sent[c] /\ result'[c] = result[c])]_vars

\* a rate-limited first attempt, then an attempt that fails with a
\* non-retryable code: the invocation ends there with that error
C33_Witness ==
  \E c \in Callers :
    /\ pc[c] = "failed"
    /\ attempts[c] = 3
    /\ AttemptOutcome(first[c]).code = "rate_limited"
    /\ result[c].code = "object_not_found"
    /\ delays[c] = <<1000, 2000>>

\* C34: the available permits are never negative; a permit is held only
\* if it was available when taken, so holders and available permits add up
\* to the permits made so far; and no two callers have both completed an
\* acquire on one permit: the callers past an acquire number at most the
\* permits made so far.
C34_NoPermitServesTwo ==
  /\ permits >= 0
  /\ Cardinality(Holders) + permits = burst + ticks
  /\ Cardinality({ c \in Callers : acq[c] >= 1 }) <= burst + ticks

TypeOK ==
  /\ permits \in Nat
  /\ \A c \in Callers : attempts[c] \in 0..(RetryTimes + 1)
====
